---- MODULE Spec2Model ----
(***************************************************************************)
(* Product catalog backend (Kavinkumar888/backend).  Three deployment      *)
(* variants share one product model:                                       *)
(*   "memory"   src/server/index.js       process-local array `products`   *)
(*   "strict"   src/server.js  1..389     MongoDB, image required          *)
(*   "optional" src/server.js  390..932   MongoDB, image optional          *)
(* Text values are sequences of one-character strings so that trimming,    *)
(* URL escaping and number parsing are computed character by character.    *)
(***************************************************************************)
EXTENDS Integers, Sequences, FiniteSets, TLC

VARIABLES
    variant,     \* which deployment is running
    products,    \* memory: the array `products`; Mongo: the collection, in insertion order
    clock,       \* Date.now()
    nextOid,     \* ObjectId generator of the driver (Mongo variants)
    last,        \* the last request and its response
    handled,     \* number of write requests (create, update, delete) taken up so far
    urlArg,      \* argument of a generateProductUrl call
    urlResult,   \* its result
    pending      \* an update that has looked its record up and not yet written

vars == <<variant, products, clock, nextOid, last, handled, urlArg, urlResult, pending>>

----------------------------------------------------------------------------
(* JavaScript values *)

Undefined == [t |-> "undefined"]
Null == [t |-> "null"]
NaN == [t |-> "nan"]
Str(s) == [t |-> "string", s |-> s]
\* numbers are kept in hundredths: 12.5 is Num(1250)
Num(n) == [t |-> "number", n |-> n]
Obj(o) == [t |-> "object", o |-> o]

\* ToBoolean: what `x ? a : b`, `!x`, `x && y`, `x || y` test
Truthy(v) ==
    CASE v.t = "string" -> v.s # <<>>
      [] v.t = "number" -> v.n # 0
      [] v.t = "object" -> TRUE
      [] OTHER -> FALSE

----------------------------------------------------------------------------
(* Text constants *)

WovenFabrics == <<"w","o","v","e","n"," ","f","a","b","r","i","c","s">>
FabricsStructure == <<"f","a","b","r","i","c","s"," ","s","t","r","u","c","t","u","r","e">>
FabricsFinish == <<"f","a","b","r","i","c","s"," ","f","i","n","i","s","h">>
Yarn == <<"y","a","r","n">>
Greige == <<"g","r","e","i","g","e">>
Rfd == <<"r","f","d">>
Solid == <<"s","o","l","i","d">>
Printed == <<"p","r","i","n","t","e","d">>
Dyed == <<"d","y","e","d">>
TwillAndCo == <<"t","&","c","=","1">>
Cotton == <<"c","o","t","t","o","n">>
PolyPlus == <<"p","+","c"," ","%">>

KeyCategory == <<"c","a","t","e","g","o","r","y">>
KeySubCategory == <<"s","u","b","C","a","t","e","g","o","r","y">>
KeyType == <<"t","y","p","e">>
KeyFabricType == <<"f","a","b","r","i","c","T","y","p","e">>

\* '/products' and '/products?'
RootPath == <<"/","p","r","o","d","u","c","t","s">>
BaseUrl == RootPath \o <<"?">>

\* the enumerated woven sub-categories of generateProductUrl
WovenTypes == {Greige, Rfd, Solid, Printed}

----------------------------------------------------------------------------
(* URLSearchParams *)

Letters ==
    {"a","b","c","d","e","f","g","h","i","j","k","l","m","n","o","p","q","r","s","t",
     "u","v","w","x","y","z","A","B","C","D","E","F","G","H","I","J","K","L","M","N",
     "O","P","Q","R","S","T","U","V","W","X","Y","Z"}
DigitChars == {"0","1","2","3","4","5","6","7","8","9"}

\* bytes the application/x-www-form-urlencoded serializer leaves as they are
FormSafe == Letters \cup DigitChars \cup {"*", "-", ".", "_"}

PercentCode(c) ==
    CASE c = "&" -> <<"%","2","6">>
      [] c = "=" -> <<"%","3","D">>
      [] c = "+" -> <<"%","2","B">>
      [] c = "%" -> <<"%","2","5">>
      [] c = "/" -> <<"%","2","F">>
      [] c = "?" -> <<"%","3","F">>

RECURSIVE FormEncode(_)
FormEncode(s) ==
    IF s = <<>> THEN <<>>
    ELSE LET c == Head(s)
             e == IF c \in FormSafe THEN <<c>>
                  ELSE IF c = " " THEN <<"+">>
                  ELSE PercentCode(c)
         IN e \o FormEncode(Tail(s))

\* URLSearchParams.prototype.toString of a list of <<name, value>> pairs
RECURSIVE ParamsToString(_)
ParamsToString(params) ==
    IF params = <<>> THEN <<>>
    ELSE LET p == Head(params)
             one == FormEncode(p[1]) \o <<"=">> \o FormEncode(p[2])
         IN IF Len(params) = 1 THEN one
            ELSE one \o <<"&">> \o ParamsToString(Tail(params))

----------------------------------------------------------------------------
(* generateProductUrl: src/server.js 608..638, repeated verbatim at 721..751 *)

AppendIf(params, cond, name, value) ==
    IF cond THEN Append(params, <<name, value>>) ELSE params

\* generateProductUrl with the woven branch treated like the other taxonomies
generateProductUrlFlatWoven(product) ==
    IF ~Truthy(product.mainCategory) /\ ~Truthy(product.subCategory)
    THEN RootPath
    ELSE
      LET main == product.mainCategory
          sub == product.subCategory
          p1 == AppendIf(<<>>, Truthy(main), KeyCategory, main.s)
          p2 ==
            IF main \in {Str(FabricsStructure), Str(WovenFabrics), Str(FabricsFinish)}
               /\ Truthy(sub)
            THEN Append(p1, <<KeySubCategory, sub.s>>)
            ELSE p1
      IN BaseUrl \o ParamsToString(p2)

\* generateProductUrl with the root test written with || instead of &&
generateProductUrlEagerRoot(product) ==
    IF ~Truthy(product.mainCategory) \/ ~Truthy(product.subCategory)
    THEN RootPath
    ELSE
      LET main == product.mainCategory
          sub == product.subCategory
          nested == product.nestedCategory
          p1 == Append(<<>>, <<KeyCategory, main.s>>)
          p2 ==
            IF main = Str(FabricsStructure)
            THEN Append(p1, <<KeySubCategory, sub.s>>)
            ELSE IF main = Str(WovenFabrics)
            THEN IF sub.s \in WovenTypes
                 THEN AppendIf(Append(p1, <<KeyType, sub.s>>),
                               Truthy(nested), KeyFabricType, nested.s)
                 ELSE Append(p1, <<KeySubCategory, sub.s>>)
            ELSE IF main = Str(FabricsFinish)
            THEN Append(p1, <<KeySubCategory, sub.s>>)
            ELSE p1
      IN BaseUrl \o ParamsToString(p2)

generateProductUrl(product) ==
    IF ~Truthy(product.mainCategory) /\ ~Truthy(product.subCategory)
    THEN RootPath
    ELSE
      LET main == product.mainCategory
          sub == product.subCategory
          nested == product.nestedCategory
          p0 == <<>>
          p1 == AppendIf(p0, Truthy(main), KeyCategory, main.s)
          p2 ==
            IF main = Str(FabricsStructure) /\ Truthy(sub)
            THEN Append(p1, <<KeySubCategory, sub.s>>)
            ELSE IF main = Str(WovenFabrics) /\ Truthy(sub)
            THEN IF sub.s \in WovenTypes
                 THEN AppendIf(Append(p1, <<KeyType, sub.s>>),
                               Truthy(nested), KeyFabricType, nested.s)
                 ELSE Append(p1, <<KeySubCategory, sub.s>>)
            ELSE IF main = Str(FabricsFinish) /\ Truthy(sub)
            THEN Append(p1, <<KeySubCategory, sub.s>>)
            ELSE p1
      IN BaseUrl \o ParamsToString(p2)

----------------------------------------------------------------------------
(* Reading a URL back: split the query at "&" and "=", undo the escaping *)

HexPairs ==
    {<<<<"2","6">>, "&">>, <<<<"3","D">>, "=">>, <<<<"2","B">>, "+">>,
     <<<<"2","5">>, "%">>, <<<<"2","F">>, "/">>, <<<<"3","F">>, "?">>}

RECURSIVE FormDecode(_)
FormDecode(s) ==
    IF s = <<>> THEN <<>>
    ELSE IF Head(s) = "+" THEN <<" ">> \o FormDecode(Tail(s))
    ELSE IF Head(s) = "%" /\ Len(s) >= 3
              /\ \E hp \in HexPairs : hp[1] = <<s[2], s[3]>>
         THEN <<(CHOOSE hp \in HexPairs : hp[1] = <<s[2], s[3]>>)[2]>>
                  \o FormDecode(SubSeq(s, 4, Len(s)))
    ELSE <<Head(s)>> \o FormDecode(Tail(s))

\* the pieces of s between occurrences of sep
RECURSIVE SplitAt(_, _, _)
SplitAt(s, sep, cur) ==
    IF s = <<>> THEN <<cur>>
    ELSE IF Head(s) = sep THEN <<cur>> \o SplitAt(Tail(s), sep, <<>>)
    ELSE SplitAt(Tail(s), sep, Append(cur, Head(s)))

IsPrefix(p, s) == Len(p) <= Len(s) /\ SubSeq(s, 1, Len(p)) = p

\* the decoded <<name, value>> pairs of the query string of url (<<>> if none)
QueryOf(url) ==
    IF ~IsPrefix(BaseUrl, url) \/ Len(url) = Len(BaseUrl) THEN <<>>
    ELSE LET parts == SplitAt(SubSeq(url, Len(BaseUrl) + 1, Len(url)), "&", <<>>)
         IN [i \in 1..Len(parts) |->
               LET kv == SplitAt(parts[i], "=", <<>>)
               IN <<FormDecode(kv[1]),
                    IF Len(kv) >= 2 THEN FormDecode(kv[2]) ELSE <<>> >>]

QueryNames(url) == [i \in 1..Len(QueryOf(url)) |-> QueryOf(url)[i][1]]
QueryValues(url) == [i \in 1..Len(QueryOf(url)) |-> QueryOf(url)[i][2]]

----------------------------------------------------------------------------
(* Text and number helpers *)

DigitSeq == <<"0","1","2","3","4","5","6","7","8","9">>
DigitVal(c) == (CHOOSE i \in 1..10 : DigitSeq[i] = c) - 1

\* decimal digits of a natural number (Number.prototype.toString)
RECURSIVE Digits(_)
Digits(n) == IF n < 10 THEN <<DigitSeq[n + 1]>>
             ELSE Digits(n \div 10) \o <<DigitSeq[(n % 10) + 1]>>

RECURSIVE TrimLeft(_)
TrimLeft(s) == IF s # <<>> /\ Head(s) = " " THEN TrimLeft(Tail(s)) ELSE s
RECURSIVE TrimRight(_)
TrimRight(s) == IF s # <<>> /\ s[Len(s)] = " "
                THEN TrimRight(SubSeq(s, 1, Len(s) - 1)) ELSE s
\* String.prototype.trim
Trim(s) == TrimRight(TrimLeft(s))

\* length of the leading run of decimal digits
RECURSIVE DigitRun(_)
DigitRun(s) == IF s # <<>> /\ Head(s) \in DigitChars THEN 1 + DigitRun(Tail(s)) ELSE 0

\* length of the longest prefix that is an unsigned decimal literal
\* (digits, optionally "." and digits, at least one digit); signs, exponents
\* and Infinity do not occur in the inputs used here
NumericPrefixLen(s) ==
    LET i == DigitRun(s)
        rest == SubSeq(s, i + 1, Len(s))
    IN IF rest # <<>> /\ Head(rest) = "."
       THEN LET f == DigitRun(Tail(rest))
            IN IF i + f = 0 THEN 0 ELSE i + 1 + f
       ELSE i

RECURSIVE DigitsValue(_)
DigitsValue(ds) == IF ds = <<>> THEN 0
                   ELSE DigitsValue(SubSeq(ds, 1, Len(ds) - 1)) * 10 + DigitVal(ds[Len(ds)])

\* value, in hundredths, of an unsigned decimal literal (at most two
\* fraction digits are significant at this resolution)
DecimalValue(lit) ==
    LET i == DigitRun(lit)
        frac == IF i < Len(lit) THEN SubSeq(lit, i + 2, Len(lit)) ELSE <<>>
        f2 == SubSeq(frac \o <<"0","0">>, 1, 2)
    IN DigitsValue(SubSeq(lit, 1, i)) * 100 + DigitsValue(f2)

\* Number(string): the whole trimmed string must be a literal; "" is 0
JsNumber(str) ==
    LET t == Trim(str)
    IN IF t = <<>> THEN Num(0)
       ELSE IF NumericPrefixLen(t) = Len(t) THEN Num(DecimalValue(t))
       ELSE NaN

\* parseFloat(string): the longest numeric prefix after leading whitespace
JsParseFloat(str) ==
    LET t == TrimLeft(str)
        n == NumericPrefixLen(t)
    IN IF n = 0 THEN NaN ELSE Num(DecimalValue(SubSeq(t, 1, n)))

----------------------------------------------------------------------------
(* specifications: objects over the keys below; a key that is not set      *)
(* holds Undefined.  The schema's other String keys (gsm, width, count,    *)
(* construction, weave, finish) are handled exactly like composition.      *)

SpecKeys == {"category", "subCategory", "composition"}
EmptySpec == [k \in SpecKeys |-> Undefined]
SpecOf(cat, sub, comp) ==
    [category |-> cat, subCategory |-> sub, composition |-> comp]

KeyComposition == <<"c","o","m","p","o","s","i","t","i","o","n">>
KeyText(k) == CASE k = "category" -> KeyCategory
                [] k = "subCategory" -> KeySubCategory
                [] k = "composition" -> KeyComposition

\* "<letters>" -> letters; anything else is not a JSON string of this subset
IsJsonString(s) ==
    /\ Len(s) >= 2
    /\ s[1] = "\"" /\ s[Len(s)] = "\""
    /\ \A i \in 2..(Len(s) - 1) : s[i] \in Letters \cup DigitChars \cup {" "}
JsonStringBody(s) == SubSeq(s, 2, Len(s) - 1)

\* JSON.parse on the subset {} | {"key":"value",...}: [ok, val]; ok = FALSE
\* stands for the SyntaxError JSON.parse throws
JsonParse(text) ==
    IF Len(text) < 2 \/ text[1] # "{" \/ text[Len(text)] # "}"
    THEN [ok |-> FALSE, val |-> EmptySpec]
    ELSE IF Len(text) = 2 THEN [ok |-> TRUE, val |-> EmptySpec]
    ELSE
      LET members == SplitAt(SubSeq(text, 2, Len(text) - 1), ",", <<>>)
          pair(i) == SplitAt(members[i], ":", <<>>)
          wellFormed ==
              \A i \in 1..Len(members) :
                  /\ Len(pair(i)) = 2
                  /\ IsJsonString(pair(i)[1])
                  /\ IsJsonString(pair(i)[2])
                  /\ \E k \in SpecKeys : KeyText(k) = JsonStringBody(pair(i)[1])
          \* a repeated key keeps its last value
          valueOf(k) ==
              LET hits == {i \in 1..Len(members) : JsonStringBody(pair(i)[1]) = KeyText(k)}
              IN IF hits = {} THEN Undefined
                 ELSE Str(JsonStringBody(
                        pair(CHOOSE i \in hits : \A j \in hits : j <= i)[2]))
      IN IF wellFormed THEN [ok |-> TRUE, val |-> [k \in SpecKeys |-> valueOf(k)]]
         ELSE [ok |-> FALSE, val |-> EmptySpec]

----------------------------------------------------------------------------
(* Requests *)

\* requests handled in one behaviour, and the last clock reading
MaxRequests == 2
MaxClock == 1

MiB == 1024 * 1024

ImagePng == <<"i","m","a","g","e","/","p","n","g">>
ImageJpeg == <<"i","m","a","g","e","/","j","p","e","g">>
ApplicationPdf == <<"a","p","p","l","i","c","a","t","i","o","n","/","p","d","f">>

\* req.file of upload.single('image'); present = FALSE is `undefined`
NoFile == [present |-> FALSE, originalname |-> <<>>, mimetype |-> <<>>,
           size |-> 0, buffer |-> <<>>]
PngFile == [present |-> TRUE, originalname |-> <<"a",".","p","n","g">>,
            mimetype |-> ImagePng, size |-> 2 * 1024, buffer |-> <<137, 80>>]
JpegFile == [present |-> TRUE, originalname |-> <<"b",".","j","p","g">>,
             mimetype |-> ImageJpeg, size |-> 4 * 1024, buffer |-> <<255, 216>>]
BigPngFile == [present |-> TRUE, originalname |-> <<"d",".","p","n","g">>,
               mimetype |-> ImagePng, size |-> 2 * MiB, buffer |-> <<137, 81>>]
HugePngFile == [present |-> TRUE, originalname |-> <<"e",".","p","n","g">>,
                mimetype |-> ImagePng, size |-> 11 * MiB, buffer |-> <<137, 82>>]
\* a file part with a name and no content
EmptyPngFile == [present |-> TRUE, originalname |-> <<"g",".","p","n","g">>,
                 mimetype |-> ImagePng, size |-> 0, buffer |-> <<>>]
PdfFile == [present |-> TRUE, originalname |-> <<"f",".","p","d","f">>,
            mimetype |-> ApplicationPdf, size |-> 2 * 1024, buffer |-> <<37, 80>>]

\* 'prod-' + Date.now()
ProdId(now) == <<"p","r","o","d","-">> \o Digits(now)

\* an ObjectId as its 24 hexadecimal digits; the driver's generator is a counter
OidHex(n) == [i \in 1..24 |-> IF i < 24 THEN "0" ELSE DigitSeq[n + 1]]
HexChars == DigitChars \cup {"a","b","c","d","e","f","A","B","C","D","E","F"}
\* what Mongoose casts to an ObjectId: 24 hex digits, or any 12 characters
IsObjectIdString(s) ==
    \/ Len(s) = 24 /\ \A i \in 1..24 : s[i] \in HexChars
    \/ Len(s) = 12

NameA == <<"a","l","p","h","a">>
NameB == <<"b","e","t","a">>
Price1250 == <<"1","2",".","5","0">>
PriceAbc == <<"a","b","c">>
ClientUrl == <<"/","x">>
SpecText == <<"{","\"">> \o KeyComposition \o <<"\"",":","\"">> \o Cotton \o <<"\"","}">>
BadSpecText == <<"{","c","o","t","t","o","n">>

\* req.body: a field the request does not carry is Undefined
EmptyBody ==
    [id |-> Undefined, name |-> Undefined, price |-> Undefined,
     mainCategory |-> Undefined, subCategory |-> Undefined,
     nestedCategory |-> Undefined, composition |-> Undefined,
     specifications |-> Undefined, productUrl |-> Undefined]
FullBody ==
    [EmptyBody EXCEPT !.name = Str(NameA), !.price = Str(Price1250),
                      !.mainCategory = Str(WovenFabrics), !.subCategory = Str(Greige),
                      !.nestedCategory = Str(Cotton), !.composition = Str(Cotton),
                      !.specifications = Str(SpecText)]
PatchBody ==
    [EmptyBody EXCEPT !.id = Str(ProdId(1)), !.name = Str(NameB),
                      !.productUrl = Str(ClientUrl)]
BlankNameBody == [FullBody EXCEPT !.name = Str(<<>>)]
BadPriceBody == [FullBody EXCEPT !.price = Str(PriceAbc)]
BadSpecBody == [FullBody EXCEPT !.name = Str(NameB), !.specifications = Str(BadSpecText)]

\* the <<body, file>> pairs of the create and update requests
Requests ==
    {<<FullBody, PngFile>>, <<FullBody, NoFile>>, <<FullBody, BigPngFile>>,
     <<FullBody, HugePngFile>>, <<FullBody, PdfFile>>, <<FullBody, EmptyPngFile>>,
     <<PatchBody, JpegFile>>,
     <<BlankNameBody, PngFile>>, <<BadPriceBody, PngFile>>, <<BadSpecBody, PngFile>>}

\* an id no record has: not of the form 'prod-<n>', resp. an ObjectId the
\* generator never hands out
UnknownId == IF variant = "memory" THEN <<"z","z","z">> ELSE OidHex(9)
\* not an ObjectId at all
MalformedId == <<"a","b","c">>

\* the :id path parameters of the update and delete requests
IdParams ==
    {products[i].id.s : i \in 1..Len(products)} \cup {UnknownId}
        \cup (IF variant = "memory" THEN {} ELSE {MalformedId})

NoCall == [mainCategory |-> Undefined, subCategory |-> Undefined,
           nestedCategory |-> Undefined]
NoResult == <<"-">>

\* the request handled last and its answer: the status, and for a read the
\* records of the JSON array answered
NoLast == [op |-> "none", id |-> <<>>, body |-> EmptyBody, file |-> NoFile,
           status |-> 0, result |-> <<>>]
Response(op, id, body, file, status) ==
    [op |-> op, id |-> id, body |-> body, file |-> file, status |-> status,
     result |-> <<>>]

\* an update of the optional-inline variant between its two awaits
NoPending == [active |-> FALSE, id |-> <<>>, body |-> EmptyBody, file |-> NoFile]

\* Array.prototype.findIndex(p => p.id === productId), 1-based; 0 for -1
FindIndex(ps, id) ==
    IF \E i \in 1..Len(ps) : ps[i].id = id
    THEN CHOOSE i \in 1..Len(ps) :
            /\ ps[i].id = id
            /\ \A j \in 1..(i - 1) : ps[j].id # id
    ELSE 0

RemoveAt(ps, i) == SubSeq(ps, 1, i - 1) \o SubSeq(ps, i + 1, Len(ps))

\* new Date(ms).toISOString(), for ms < 1000
IsoString(ms) ==
    <<"1","9","7","0","-","0","1","-","0","1","T","0","0",":","0","0",":","0","0",".">>
        \o SubSeq(<<"0","0">> \o Digits(ms), Len(Digits(ms)), Len(Digits(ms)) + 2)
        \o <<"Z">>

\* the successive readings of Date.now() / new Date() during one request
ClockReads(n) ==
    {ts \in [1..n -> clock..MaxClock] : \A i \in 1..(n - 1) : ts[i] <= ts[i + 1]}

Init ==
    /\ variant \in {"memory", "strict", "optional"}
    /\ products = <<>>
    /\ clock = 0
    /\ nextOid = 0
    /\ last = NoLast
    /\ handled = 0
    /\ urlArg = NoCall
    /\ urlResult = NoResult
    /\ pending = NoPending

----------------------------------------------------------------------------
(* src/server/index.js: the in-memory variant *)

UploadsPrefix == <<"/","u","p","l","o","a","d","s","/">>
\* multer diskStorage filename (line 28) behind the '/uploads/' prefix (line 63)
UploadPath(now, file) == UploadsPrefix \o Digits(now) \o <<"-">> \o file.originalname

MemoryFileLimit == 10 * MiB

\* typeof specifications === 'string' ? JSON.parse(...) : specifications
\* [ok, val]: ok = FALSE when JSON.parse throws
MemoryParseSpecifications(v) ==
    IF v.t = "string"
    THEN LET r == JsonParse(v.s) IN [ok |-> r.ok, val |-> Obj(r.val)]
    ELSE [ok |-> TRUE, val |-> v]

\* { id: 'prod-' + Date.now(), ...req.body, specifications, image, createdAt, updatedAt }
MemoryProductData(body, file, spec, ts) ==
    [id |-> IF body.id # Undefined THEN body.id ELSE Str(ProdId(ts[2])),
     name |-> body.name,
     price |-> body.price,
     mainCategory |-> body.mainCategory,
     subCategory |-> body.subCategory,
     nestedCategory |-> body.nestedCategory,
     composition |-> body.composition,
     specifications |-> spec,
     image |-> IF file.present THEN Str(UploadPath(ts[1], file)) ELSE Null,
     productUrl |-> body.productUrl,
     inStock |-> Undefined,
     createdAt |-> Str(IsoString(ts[3])),
     updatedAt |-> Str(IsoString(ts[4]))]

MemoryCreate ==
    /\ variant = "memory"
    /\ handled < MaxRequests
    /\ \E rq \in Requests, ts \in ClockReads(4) :
         LET body == rq[1]
             file == rq[2]
             spec == MemoryParseSpecifications(body.specifications)
         IN IF file.present /\ file.size > MemoryFileLimit
            THEN \* MulterError before the handler; express' default handler answers 500
                 /\ products' = products
                 /\ clock' = clock
                 /\ last' = Response("create", <<>>, body, file, 500)
            ELSE IF ~spec.ok
            THEN /\ products' = products
                 /\ clock' = clock
                 /\ last' = Response("create", <<>>, body, file, 500)
            ELSE /\ products' = Append(products, MemoryProductData(body, file, spec.val, ts))
                 /\ clock' = ts[4]
                 /\ last' = Response("create", <<>>, body, file, 201)
    /\ handled' = handled + 1
    /\ UNCHANGED <<variant, nextOid, urlArg, urlResult, pending>>

Override(new, old) == IF new # Undefined THEN new ELSE old

\* MemoryMerge with the image computed as on create (line 63): null without a file
MemoryMergeDropImage(old, body, file, spec, ts) ==
    [id |-> Override(body.id, old.id),
     name |-> Override(body.name, old.name),
     price |-> Override(body.price, old.price),
     mainCategory |-> Override(body.mainCategory, old.mainCategory),
     subCategory |-> Override(body.subCategory, old.subCategory),
     nestedCategory |-> Override(body.nestedCategory, old.nestedCategory),
     composition |-> Override(body.composition, old.composition),
     specifications |-> spec,
     image |-> IF file.present THEN Str(UploadPath(ts[1], file)) ELSE Null,
     productUrl |-> Override(body.productUrl, old.productUrl),
     inStock |-> old.inStock,
     createdAt |-> old.createdAt,
     updatedAt |-> Str(IsoString(ts[2]))]

\* { ...products[productIndex], ...updatedData }
MemoryMerge(old, body, file, spec, ts) ==
    [id |-> Override(body.id, old.id),
     name |-> Override(body.name, old.name),
     price |-> Override(body.price, old.price),
     mainCategory |-> Override(body.mainCategory, old.mainCategory),
     subCategory |-> Override(body.subCategory, old.subCategory),
     nestedCategory |-> Override(body.nestedCategory, old.nestedCategory),
     composition |-> Override(body.composition, old.composition),
     specifications |-> spec,
     image |-> IF file.present THEN Str(UploadPath(ts[1], file)) ELSE old.image,
     productUrl |-> Override(body.productUrl, old.productUrl),
     inStock |-> old.inStock,
     createdAt |-> old.createdAt,
     updatedAt |-> Str(IsoString(ts[2]))]

MemoryUpdate ==
    /\ variant = "memory"
    /\ handled < MaxRequests
    /\ \E id \in IdParams, rq \in Requests, ts \in ClockReads(2) :
         LET body == rq[1]
             file == rq[2]
             productIndex == FindIndex(products, Str(id))
             spec == MemoryParseSpecifications(body.specifications)
         IN IF file.present /\ file.size > MemoryFileLimit
            THEN /\ products' = products
                 /\ clock' = clock
                 /\ last' = Response("update", id, body, file, 500)
            ELSE IF productIndex = 0
            THEN /\ products' = products
                 /\ clock' = clock
                 /\ last' = Response("update", id, body, file, 404)
            ELSE IF ~spec.ok
            THEN /\ products' = products
                 /\ clock' = clock
                 /\ last' = Response("update", id, body, file, 500)
            ELSE /\ products' = [products EXCEPT ![productIndex] =
                                    MemoryMerge(@, body, file, spec.val, ts)]
                 /\ clock' = ts[2]
                 /\ last' = Response("update", id, body, file, 200)
    /\ handled' = handled + 1
    /\ UNCHANGED <<variant, nextOid, urlArg, urlResult, pending>>

MemoryDelete ==
    /\ variant = "memory"
    /\ handled < MaxRequests
    /\ \E id \in IdParams :
         LET productIndex == FindIndex(products, Str(id))
         IN IF productIndex = 0
            THEN /\ products' = products
                 /\ last' = Response("delete", id, EmptyBody, NoFile, 404)
            ELSE /\ products' = RemoveAt(products, productIndex)
                 /\ last' = Response("delete", id, EmptyBody, NoFile, 200)
    /\ handled' = handled + 1
    /\ UNCHANGED <<variant, clock, nextOid, urlArg, urlResult, pending>>

----------------------------------------------------------------------------
(* Mongoose, as the two MongoDB variants use it.  A key whose value is     *)
(* undefined is left out of a document and stripped from an update.        *)

Bool(b) == [t |-> "boolean", b |-> b]
Date(ms) == [t |-> "date", ms |-> ms]
InlineImage(file) == Obj([data |-> file.buffer, contentType |-> file.mimetype])

\* the `required: true` validator of a String path
RequiredString(v) == v.t = "string" /\ v.s # <<>>
\* casting to a Number path throws a CastError for NaN
CastsToNumber(v) == v.t = "number"

\* new Date() of the `timestamps: true` option: one reading per write
MongoNow == clock..MaxClock

\* Model.findById / findByIdAndUpdate / findByIdAndDelete lookup:
\* "cast" is the CastError for an id that is no ObjectId, 0 is null
MongoFind(id) ==
    IF ~IsObjectIdString(id) THEN "cast"
    ELSE IF FindIndex(products, Str(id)) = 0 THEN "null" ELSE "found"

MongoDeleteResult(id) ==
    CASE MongoFind(id) = "cast" -> [status |-> 500, products |-> products]
      [] MongoFind(id) = "null" -> [status |-> 404, products |-> products]
      [] OTHER -> [status |-> 200,
                   products |-> RemoveAt(products, FindIndex(products, Str(id)))]

----------------------------------------------------------------------------
(* src/server.js 1..389: the strict variant (image required) *)

StrictAllowedTypes == {ImageJpeg, <<"i","m","a","g","e","/","j","p","g">>, ImagePng,
                       <<"i","m","a","g","e","/","w","e","b","p">>}
StrictMulterLimit == 10 * MiB
StrictImageLimit == 1 * MiB

\* upload.single("image") and the error middleware (lines 34-45, 357-370):
\* 0 lets the request through, otherwise the status answered
StrictUpload(file) ==
    IF ~file.present THEN 0
    ELSE IF file.mimetype \notin StrictAllowedTypes THEN 500
    ELSE IF file.size > StrictMulterLimit THEN 400
    ELSE 0

\* lines 166-175 and 214-223: {} unless a truthy value decodes
StrictSpecifications(v) ==
    IF ~Truthy(v) THEN EmptySpec
    ELSE IF v.t = "string"
         THEN (IF JsonParse(v.s).ok THEN JsonParse(v.s).val ELSE EmptySpec)
         ELSE v.o

\* req.body.price ? Number(req.body.price) : 0
StrictPrice(v) == IF Truthy(v) THEN JsNumber(v.s) ELSE Num(0)

\* req.body.nestedCategory || ""
StrictNested(v) == IF Truthy(v) THEN v ELSE Str(<<>>)

\* productData (lines 177-193) as the document `new Product` builds from it
StrictProductData(body, file, oid, now) ==
    [id |-> Str(OidHex(oid)),
     name |-> body.name,
     price |-> StrictPrice(body.price),
     mainCategory |-> body.mainCategory,
     subCategory |-> body.subCategory,
     nestedCategory |-> StrictNested(body.nestedCategory),
     composition |-> body.composition,
     specifications |-> Obj(StrictSpecifications(body.specifications)),
     image |-> InlineImage(file),
     productUrl |-> body.productUrl,
     inStock |-> Bool(TRUE),
     createdAt |-> Date(now),
     updatedAt |-> Date(now)]

\* the `required: true` validator of a Buffer path: an empty buffer fails
RequiredBuffer(v) == v # <<>>

\* product.save(): casting and the schema's required validators
StrictValid(doc) ==
    /\ CastsToNumber(doc.price)
    /\ RequiredBuffer(doc.image.o.data)
    /\ doc.image.o.contentType # <<>>
    /\ RequiredString(doc.name)
    /\ RequiredString(doc.mainCategory)
    /\ RequiredString(doc.subCategory)

StrictCreate ==
    /\ variant = "strict"
    /\ handled < MaxRequests
    /\ \E rq \in Requests, now \in MongoNow :
         LET body == rq[1]
             file == rq[2]
             doc == StrictProductData(body, file, nextOid, now)
         IN IF StrictUpload(file) # 0
            THEN /\ last' = Response("create", <<>>, body, file, StrictUpload(file))
                 /\ UNCHANGED <<products, clock, nextOid>>
            ELSE IF ~file.present
            THEN /\ last' = Response("create", <<>>, body, file, 400)
                 /\ UNCHANGED <<products, clock, nextOid>>
            ELSE IF file.size > StrictImageLimit
            THEN /\ last' = Response("create", <<>>, body, file, 400)
                 /\ UNCHANGED <<products, clock, nextOid>>
            ELSE IF ~StrictValid(doc)
            THEN /\ last' = Response("create", <<>>, body, file, 500)
                 /\ nextOid' = nextOid + 1
                 /\ UNCHANGED <<products, clock>>
            ELSE /\ products' = Append(products, doc)
                 /\ clock' = now
                 /\ nextOid' = nextOid + 1
                 /\ last' = Response("create", <<>>, body, file, 201)
    /\ handled' = handled + 1
    /\ UNCHANGED <<variant, urlArg, urlResult, pending>>

\* findByIdAndUpdate(id, updateData, { new: true }) applied to the stored
\* document: updateData of lines 225-240 and 247-250, no validators
StrictApplyUpdate(old, body, file, now) ==
    [id |-> old.id,
     name |-> Override(body.name, old.name),
     price |-> StrictPrice(body.price),
     mainCategory |-> Override(body.mainCategory, old.mainCategory),
     subCategory |-> Override(body.subCategory, old.subCategory),
     nestedCategory |-> StrictNested(body.nestedCategory),
     composition |-> Override(body.composition, old.composition),
     specifications |-> Obj(StrictSpecifications(body.specifications)),
     image |-> IF file.present THEN InlineImage(file) ELSE old.image,
     productUrl |-> Override(body.productUrl, old.productUrl),
     inStock |-> old.inStock,
     createdAt |-> old.createdAt,
     updatedAt |-> Date(now)]

StrictUpdate ==
    /\ variant = "strict"
    /\ handled < MaxRequests
    /\ \E id \in IdParams, rq \in Requests, now \in MongoNow :
         LET body == rq[1]
             file == rq[2]
             i == FindIndex(products, Str(id))
         IN IF StrictUpload(file) # 0
            THEN /\ last' = Response("update", id, body, file, StrictUpload(file))
                 /\ UNCHANGED <<products, clock>>
            ELSE IF file.present /\ file.size > StrictImageLimit
            THEN /\ last' = Response("update", id, body, file, 400)
                 /\ UNCHANGED <<products, clock>>
            ELSE IF MongoFind(id) = "cast" \/ ~CastsToNumber(StrictPrice(body.price))
            THEN /\ last' = Response("update", id, body, file, 500)
                 /\ UNCHANGED <<products, clock>>
            ELSE IF MongoFind(id) = "null"
            THEN /\ last' = Response("update", id, body, file, 404)
                 /\ UNCHANGED <<products, clock>>
            ELSE /\ products' = [products EXCEPT ![i] =
                                    StrictApplyUpdate(@, body, file, now)]
                 /\ clock' = now
                 /\ last' = Response("update", id, body, file, 200)
    /\ handled' = handled + 1
    /\ UNCHANGED <<variant, nextOid, urlArg, urlResult, pending>>

StrictDelete ==
    /\ variant = "strict"
    /\ handled < MaxRequests
    /\ \E id \in IdParams :
         /\ products' = MongoDeleteResult(id).products
         /\ last' = Response("delete", id, EmptyBody, NoFile, MongoDeleteResult(id).status)
    /\ handled' = handled + 1
    /\ UNCHANGED <<variant, clock, nextOid, urlArg, urlResult, pending>>

----------------------------------------------------------------------------
(* src/server.js 390..932: the optional-inline variant *)

ImageSlash == <<"i","m","a","g","e","/">>
OptionalMulterLimit == 10 * MiB

\* upload.single('image') (lines 415-428); this variant installs no error
\* middleware, so express' default handler answers 500
OptionalUpload(file) ==
    IF ~file.present THEN 0
    ELSE IF ~IsPrefix(ImageSlash, file.mimetype) THEN 500
    ELSE IF file.size > OptionalMulterLimit THEN 500
    ELSE 0

\* req.body.price ? parseFloat(req.body.price) : 0
OptionalPrice(v) == IF Truthy(v) THEN JsParseFloat(v.s) ELSE Num(0)

\* the specifications literal of lines 668-678 and 772-782
OptionalSpecifications(body) ==
    SpecOf(body.mainCategory, body.subCategory, body.composition)

\* the String setter of `name` (trim: true)
OptionalName(v) == IF v.t = "string" THEN Str(Trim(v.s)) ELSE v

\* productData (lines 655-682) as the document `new Product` builds from it
OptionalProductData(body, file, oid, now) ==
    [id |-> Str(OidHex(oid)),
     name |-> OptionalName(body.name),
     price |-> OptionalPrice(body.price),
     mainCategory |-> body.mainCategory,
     subCategory |-> body.subCategory,
     nestedCategory |-> Override(body.nestedCategory, Str(<<>>)),
     composition |-> body.composition,
     specifications |-> Obj(OptionalSpecifications(body)),
     image |-> IF file.present THEN InlineImage(file) ELSE Undefined,
     productUrl |-> Str(generateProductUrl(
                       [mainCategory |-> body.mainCategory,
                        subCategory |-> body.subCategory,
                        nestedCategory |-> body.nestedCategory])),
     inStock |-> Bool(TRUE),
     createdAt |-> Date(now),
     updatedAt |-> Date(now)]

OptionalValid(doc) ==
    /\ CastsToNumber(doc.price)
    /\ RequiredString(doc.name)
    /\ RequiredString(doc.mainCategory)
    /\ RequiredString(doc.subCategory)

OptionalCreate ==
    /\ variant = "optional"
    /\ handled < MaxRequests
    /\ \E rq \in Requests, now \in MongoNow :
         LET body == rq[1]
             file == rq[2]
             doc == OptionalProductData(body, file, nextOid, now)
         IN IF OptionalUpload(file) # 0
            THEN /\ last' = Response("create", <<>>, body, file, OptionalUpload(file))
                 /\ UNCHANGED <<products, clock, nextOid>>
            ELSE IF ~OptionalValid(doc)
            THEN /\ last' = Response("create", <<>>, body, file, 500)
                 /\ nextOid' = nextOid + 1
                 /\ UNCHANGED <<products, clock>>
            ELSE /\ products' = Append(products, doc)
                 /\ clock' = now
                 /\ nextOid' = nextOid + 1
                 /\ last' = Response("create", <<>>, body, file, 201)
    /\ handled' = handled + 1
    /\ UNCHANGED <<variant, urlArg, urlResult, pending>>

\* findByIdAndUpdate(productId, { $set: updatedData }, { new: true,
\* runValidators: true }) applied to the stored document
OptionalApplyUpdate(old, body, file, now) ==
    [id |-> old.id,
     name |-> Override(OptionalName(body.name), old.name),
     price |-> OptionalPrice(body.price),
     mainCategory |-> Override(body.mainCategory, old.mainCategory),
     subCategory |-> Override(body.subCategory, old.subCategory),
     nestedCategory |-> Override(body.nestedCategory, old.nestedCategory),
     composition |-> Override(body.composition, old.composition),
     specifications |-> Obj(OptionalSpecifications(body)),
     image |-> IF file.present THEN InlineImage(file) ELSE old.image,
     productUrl |-> Str(generateProductUrl(
                       [mainCategory |-> body.mainCategory,
                        subCategory |-> body.subCategory,
                        nestedCategory |-> body.nestedCategory])),
     inStock |-> old.inStock,
     createdAt |-> old.createdAt,
     updatedAt |-> Date(now)]

\* the update validators: casting, and `required` on the paths that are set
OptionalUpdateValid(body) ==
    /\ CastsToNumber(OptionalPrice(body.price))
    /\ body.name # Undefined => RequiredString(OptionalName(body.name))
    /\ body.mainCategory # Undefined => RequiredString(body.mainCategory)
    /\ body.subCategory # Undefined => RequiredString(body.subCategory)

OptionalUpdate ==
    /\ variant = "optional"
    /\ handled < MaxRequests
    /\ \E id \in IdParams, rq \in Requests, now \in MongoNow :
         LET body == rq[1]
             file == rq[2]
             i == FindIndex(products, Str(id))
         IN IF OptionalUpload(file) # 0
            THEN /\ last' = Response("update", id, body, file, OptionalUpload(file))
                 /\ UNCHANGED <<products, clock>>
            ELSE IF MongoFind(id) = "cast"
            THEN /\ last' = Response("update", id, body, file, 500)
                 /\ UNCHANGED <<products, clock>>
            ELSE IF MongoFind(id) = "null"
            THEN /\ last' = Response("update", id, body, file, 404)
                 /\ UNCHANGED <<products, clock>>
            ELSE IF ~OptionalUpdateValid(body)
            THEN /\ last' = Response("update", id, body, file, 500)
                 /\ UNCHANGED <<products, clock>>
            ELSE /\ products' = [products EXCEPT ![i] =
                                    OptionalApplyUpdate(@, body, file, now)]
                 /\ clock' = now
                 /\ last' = Response("update", id, body, file, 200)
    /\ handled' = handled + 1
    /\ UNCHANGED <<variant, nextOid, urlArg, urlResult, pending>>

OptionalDelete ==
    /\ variant = "optional"
    /\ handled < MaxRequests
    /\ \E id \in IdParams :
         /\ products' = MongoDeleteResult(id).products
         /\ last' = Response("delete", id, EmptyBody, NoFile, MongoDeleteResult(id).status)
    /\ handled' = handled + 1
    /\ UNCHANGED <<variant, clock, nextOid, urlArg, urlResult, pending>>

----------------------------------------------------------------------------
(* The read routes.  A read answers the stored records (the imageUrl the   *)
(* MongoDB variants add to each is not modelled) and changes nothing.      *)

UpperCase == <<"A","B","C","D","E","F","G","H","I","J","K","L","M","N","O","P","Q",
               "R","S","T","U","V","W","X","Y","Z">>
LowerCase == <<"a","b","c","d","e","f","g","h","i","j","k","l","m","n","o","p","q",
               "r","s","t","u","v","w","x","y","z">>
Lower(c) ==
    IF \E i \in 1..26 : UpperCase[i] = c
    THEN LowerCase[CHOOSE i \in 1..26 : UpperCase[i] = c]
    ELSE c

\* { $regex: q, $options: 'i' } for patterns of ordinary characters, "." and
\* parentheses: a pattern whose parentheses do not balance does not compile,
\* and the query fails
RegexCompiles(q) ==
    LET opens(n) == Cardinality({i \in 1..n : q[i] = "("})
        closes(n) == Cardinality({i \in 1..n : q[i] = ")"})
    IN /\ \A n \in 1..Len(q) : closes(n) <= opens(n)
       /\ opens(Len(q)) = closes(Len(q))
RegexChar(pc, tc) == pc = "." \/ Lower(pc) = Lower(tc)
\* an unanchored match of q somewhere in the field; a missing field matches nothing
RegexTest(q, v) ==
    /\ v.t = "string"
    /\ \E start \in 1..(Len(v.s) - Len(q) + 1) :
           \A k \in 1..Len(q) : RegexChar(q[k], v.s[start + k - 1])

\* the :q path parameter of the search requests
SearchQueries == {<<"E">>, <<"t">>, <<"z","z">>, <<"b",".","t">>, <<"(">>}

\* the orders a cursor can hand the documents rs out in
Orderings(rs) ==
    {[i \in 1..Len(rs) |-> rs[f[i]]] :
        f \in {g \in [1..Len(rs) -> 1..Len(rs)] :
                 \A a, b \in 1..Len(rs) : a # b => g[a] # g[b]}}
\* .sort({ createdAt: -1 }): documents with equal createdAt in any order
SortedByCreatedAtDesc(rs) ==
    {r \in Orderings(rs) :
        \A i \in 1..(Len(r) - 1) : r[i].createdAt.ms >= r[i + 1].createdAt.ms}

ReadAnswer(op, param, status, result) ==
    [Response(op, param, EmptyBody, NoFile, status) EXCEPT !.result = result]

\* src/server/index.js 51-53: res.json(products)
MemoryList ==
    /\ variant = "memory"
    /\ last' = ReadAnswer("list", <<>>, 200, products)
    /\ UNCHANGED <<variant, products, clock, nextOid, handled, urlArg, urlResult, pending>>

\* src/server.js 113-129
StrictList ==
    /\ variant = "strict"
    /\ \E r \in SortedByCreatedAtDesc(products) :
         last' = ReadAnswer("list", <<>>, 200, r)
    /\ UNCHANGED <<variant, products, clock, nextOid, handled, urlArg, urlResult, pending>>

\* the $or of lines 316-322
StrictMatches(q, p) ==
    \/ RegexTest(q, p.name)
    \/ RegexTest(q, p.mainCategory)
    \/ RegexTest(q, p.subCategory)

\* src/server.js 313-336: find without a sort
StrictSearch ==
    /\ variant = "strict"
    /\ \E q \in SearchQueries :
         IF ~RegexCompiles(q)
         THEN last' = ReadAnswer("search", q, 500, <<>>)
         ELSE LET Hit(p) == StrictMatches(q, p)
              IN \E r \in Orderings(SelectSeq(products, Hit)) :
                    last' = ReadAnswer("search", q, 200, r)
    /\ UNCHANGED <<variant, products, clock, nextOid, handled, urlArg, urlResult, pending>>

\* src/server.js 524-550
OptionalList ==
    /\ variant = "optional"
    /\ \E r \in SortedByCreatedAtDesc(products) :
         last' = ReadAnswer("list", <<>>, 200, r)
    /\ UNCHANGED <<variant, products, clock, nextOid, handled, urlArg, urlResult, pending>>

\* the $or of lines 880-884
OptionalMatches(q, p) ==
    \/ RegexTest(q, p.name)
    \/ RegexTest(q, p.composition)
    \/ RegexTest(q, p.specifications.o.composition)

\* src/server.js 876-909
OptionalSearch ==
    /\ variant = "optional"
    /\ \E q \in SearchQueries :
         IF ~RegexCompiles(q)
         THEN last' = ReadAnswer("search", q, 500, <<>>)
         ELSE LET Hit(p) == OptionalMatches(q, p)
              IN \E r \in SortedByCreatedAtDesc(SelectSeq(products, Hit)) :
                    last' = ReadAnswer("search", q, 200, r)
    /\ UNCHANGED <<variant, products, clock, nextOid, handled, urlArg, urlResult, pending>>

----------------------------------------------------------------------------

Next ==
    \/ MemoryCreate
    \/ MemoryUpdate
    \/ MemoryDelete
    \/ StrictCreate
    \/ StrictUpdate
    \/ StrictDelete
    \/ OptionalCreate
    \/ OptionalUpdate
    \/ OptionalDelete
    \/ MemoryList
    \/ StrictList
    \/ StrictSearch
    \/ OptionalList
    \/ OptionalSearch

Spec == Init /\ [][Next]_vars

----------------------------------------------------------------------------
(* Specification of the URL derivation alone *)

UrlMainInputs ==
    {Undefined, Str(<<>>), Str(WovenFabrics), Str(FabricsStructure),
     Str(FabricsFinish), Str(Yarn)}
UrlSubInputs ==
    {Undefined, Str(<<>>), Str(Greige), Str(Rfd), Str(Solid), Str(Printed),
     Str(Dyed), Str(TwillAndCo)}
UrlNestedInputs == {Undefined, Str(<<>>), Str(Cotton), Str(PolyPlus)}


InitUrl ==
    /\ variant = "none"
    /\ products = <<>>
    /\ clock = 0
    /\ nextOid = 0
    /\ last = NoLast
    /\ handled = 0
    /\ urlArg \in [mainCategory : UrlMainInputs, subCategory : UrlSubInputs,
                   nestedCategory : UrlNestedInputs]
    /\ urlResult = NoResult
    /\ pending = NoPending

CallGenerateProductUrl ==
    /\ urlResult = NoResult
    /\ urlResult' = generateProductUrl(urlArg)
    /\ UNCHANGED <<variant, products, clock, nextOid, last, handled, urlArg, pending>>

NextUrl == CallGenerateProductUrl

SpecUrl == InitUrl /\ [][NextUrl]_vars

----------------------------------------------------------------------------
(* Specification of the optional-inline variant with its update handler    *)
(* taken await by await: other requests run between `await findById` and   *)
(* `await findByIdAndUpdate` (src/server.js 712 and 794).  The store        *)
(* already holds one record; handled counts the requests from there on.    *)

InitRace ==
    /\ variant = "optional"
    /\ products = <<OptionalProductData(FullBody, PngFile, 0, 0)>>
    /\ clock = 0
    /\ nextOid = 1
    /\ last = Response("create", <<>>, FullBody, PngFile, 201)
    /\ handled = 0
    /\ urlArg = NoCall
    /\ urlResult = NoResult
    /\ pending = NoPending

\* lines 709-717: the upload middleware, then findById and the 404 answer
OptionalUpdateLookup ==
    /\ variant = "optional"
    /\ handled < MaxRequests
    /\ ~pending.active
    /\ \E id \in IdParams, rq \in Requests :
         LET body == rq[1]
             file == rq[2]
         IN IF OptionalUpload(file) # 0
            THEN /\ last' = Response("update", id, body, file, OptionalUpload(file))
                 /\ pending' = pending
            ELSE IF MongoFind(id) = "cast"
            THEN /\ last' = Response("update", id, body, file, 500)
                 /\ pending' = pending
            ELSE IF MongoFind(id) = "null"
            THEN /\ last' = Response("update", id, body, file, 404)
                 /\ pending' = pending
            ELSE /\ last' = last
                 /\ pending' = [active |-> TRUE, id |-> id, body |-> body, file |-> file]
    /\ handled' = handled + 1
    /\ UNCHANGED <<variant, products, clock, nextOid, urlArg, urlResult>>

\* lines 719-816: findByIdAndUpdate and the answer.  When the record is gone
\* findByIdAndUpdate resolves to null, updatedProduct.toObject() throws a
\* TypeError and the catch block answers 500.
OptionalUpdateWrite ==
    /\ variant = "optional"
    /\ pending.active
    /\ \E now \in MongoNow :
         LET i == FindIndex(products, Str(pending.id))
         IN IF ~OptionalUpdateValid(pending.body)
            THEN /\ last' = Response("update", pending.id, pending.body, pending.file, 500)
                 /\ UNCHANGED <<products, clock>>
            ELSE IF MongoFind(pending.id) = "null"
            THEN /\ last' = Response("update", pending.id, pending.body, pending.file, 500)
                 /\ UNCHANGED <<products, clock>>
            ELSE /\ products' = [products EXCEPT ![i] =
                                    OptionalApplyUpdate(@, pending.body, pending.file, now)]
                 /\ clock' = now
                 /\ last' = Response("update", pending.id, pending.body, pending.file, 200)
    /\ pending' = NoPending
    /\ UNCHANGED <<variant, nextOid, handled, urlArg, urlResult>>

NextRace ==
    \/ OptionalCreate
    \/ OptionalUpdateLookup
    \/ OptionalUpdateWrite
    \/ OptionalDelete

SpecRace == InitRace /\ [][NextRace]_vars

----------------------------------------------------------------------------
(* Claims about the product store (checked under Spec) *)

CategoriesOf(p) ==
    [mainCategory |-> p.mainCategory, subCategory |-> p.subCategory,
     nestedCategory |-> p.nestedCategory]

\* the step just taken handled an update (resp. delete) request
UpdateStep == handled' = handled + 1 /\ last'.op = "update"
DeleteStep == handled' = handled + 1 /\ last'.op = "delete"
\* the record the request's :id resolves to, before the step (0 if none)
Target == FindIndex(products, Str(last'.id))

\* C3: in the MongoDB variants every stored record's productUrl is the URL
\* derivation applied to that record's own stored mainCategory, subCategory
\* and nestedCategory.
C3_UrlIsDerived ==
    variant \in {"strict", "optional"} =>
        \A i \in 1..Len(products) :
            products[i].productUrl = Str(generateProductUrl(CategoriesOf(products[i])))

\* C4: no two stored records share an id.
C4_UniqueIds ==
    \A i, j \in 1..Len(products) : i # j => products[i].id # products[j].id

\* C5: an update never changes the id of a stored record.
C5_IdImmutable ==
    [][UpdateStep =>
         /\ Len(products') = Len(products)
         /\ \A i \in 1..Len(products) : products'[i].id = products[i].id]_vars

\* C6: every stored record has a non-empty name, mainCategory and subCategory.
C6_RequiredPresent ==
    \A i \in 1..Len(products) :
        /\ RequiredString(products[i].name)
        /\ RequiredString(products[i].mainCategory)
        /\ RequiredString(products[i].subCategory)

UpdatableFields ==
    {"name", "price", "mainCategory", "subCategory", "nestedCategory",
     "composition", "specifications", "productUrl"}

\* C7: an update that is applied leaves every field the request does not
\* carry (price, nestedCategory and specifications included) as it was.
C7_PartialMerge ==
    [][(UpdateStep /\ last'.status = 200) =>
         \A f \in UpdatableFields :
             last'.body[f] = Undefined => products'[Target][f] = products[Target][f]]_vars

\* the stored image is the uploaded file: its bytes and content type inline,
\* or a path under /uploads/ that ends with the file's name
IsImageOf(image, file) ==
    IF variant = "memory"
    THEN /\ image.t = "string"
         /\ IsPrefix(UploadsPrefix, image.s)
         /\ Len(image.s) >= Len(file.originalname)
         /\ SubSeq(image.s, Len(image.s) - Len(file.originalname) + 1, Len(image.s))
                = file.originalname
    ELSE /\ image.t = "object"
         /\ image.o = [data |-> file.buffer, contentType |-> file.mimetype]

\* C8: for every update that is applied to an existing record: without an
\* uploaded image the stored image stays exactly as it was (it is never
\* nulled); with an uploaded image the stored image is exactly the new one.
C8_ImageOnUpdate ==
    [][(UpdateStep /\ last'.status = 200) =>
         IF last'.file.present
         THEN IsImageOf(products'[Target].image, last'.file)
         ELSE products'[Target].image = products[Target].image]_vars

\* an update with a new upload replaced the image a record was created with
C8_Witness ==
    /\ last.op = "update" /\ last.status = 200
    /\ last.file = JpegFile
    /\ Len(products) = 1
    /\ IsImageOf(products[1].image, JpegFile)
    /\ ~IsImageOf(products[1].image, PngFile)

\* C9: a delete whose id resolves to no stored record answers NotFound and
\* leaves the store unchanged; a delete of an existing id succeeds, removes
\* exactly that record, and leaves no record under that id (so a second
\* delete of the same id answers NotFound).
C9_Delete ==
    [][DeleteStep =>
         IF Target = 0
         THEN last'.status = 404 /\ products' = products
         ELSE /\ last'.status = 200
              /\ products' = RemoveAt(products, Target)
              /\ FindIndex(products', Str(last'.id)) = 0]_vars

\* C10: in the MongoDB variants a create that is valid but for its price
\* succeeds and stores the numeric value of a numeric-looking price
\* ("12.50" is 12.5) and 0 for a non-numeric one ("abc").
C10_PriceCoercion ==
    (/\ variant \in {"strict", "optional"}
     /\ last.op = "create"
     /\ last.file = PngFile
     /\ last.body \in {FullBody, BadPriceBody}) =>
        /\ last.status = 201
        /\ products[Len(products)].price =
               IF last.body = FullBody THEN Num(1250) ELSE Num(0)

\* C11: a create, or an update of an existing record, whose specifications
\* text cannot be decoded succeeds, and the record written has an empty
\* specifications mapping next to its other supplied fields.
C11_SpecDecodeFallback ==
    (/\ last.body = BadSpecBody
     /\ last.file = PngFile
     /\ \/ last.op = "create"
        \/ last.op = "update" /\ FindIndex(products, Str(last.id)) # 0) =>
        /\ last.status \in {200, 201}
        /\ LET written == IF last.op = "create" THEN products[Len(products)]
                          ELSE products[FindIndex(products, Str(last.id))]
           IN /\ written.specifications = Obj(EmptySpec)
              /\ written.name = Str(NameB)

\* C12: under the required-inline image policy (the strict variant) every
\* stored record has image bytes and a non-empty content type, and a create
\* without an image is answered with a validation error.
C12_ImageRequired ==
    variant = "strict" =>
        /\ \A i \in 1..Len(products) :
               /\ products[i].image.t = "object"
               /\ products[i].image.o.data # <<>>
               /\ products[i].image.o.contentType # <<>>
        /\ (last.op = "create" /\ ~last.file.present) => last.status = 400

\* the step just taken handled a create request
CreateStep == handled' = handled + 1 /\ last'.op = "create"

\* the size above which the running variant refuses an upload
SizeCap ==
    CASE variant = "memory" -> MemoryFileLimit
      [] variant = "strict" -> StrictImageLimit
      [] OTHER -> OptionalMulterLimit

\* C13: a create or update whose upload exceeds the size cap is answered with
\* a validation error (400) and leaves the store exactly as it was.
C13_OversizedRejected ==
    [][((CreateStep \/ UpdateStep) /\ last'.file.present /\ last'.file.size > SizeCap) =>
         /\ last'.status = 400
         /\ products' = products]_vars

\* q occurs in the text v, letter case aside
ContainsCI(v, q) ==
    /\ v.t = "string"
    /\ \E start \in 1..(Len(v.s) - Len(q) + 1) :
           \A k \in 1..Len(q) : Lower(v.s[start + k - 1]) = Lower(q[k])

\* the fields the running variant's search looks at
SearchedFields(p) ==
    IF variant = "strict" THEN {p.name, p.mainCategory, p.subCategory}
    ELSE {p.name, p.composition, p.specifications.o.composition}

\* C14: a search whose query occurs in exactly one stored record's name
\* answers exactly that record; a search whose query occurs in no searched
\* field of any record answers an empty result, not an error.
C14_SearchByName ==
    last.op = "search" =>
        LET named == {i \in 1..Len(products) : ContainsCI(products[i].name, last.id)}
        IN /\ Cardinality(named) = 1 =>
                  /\ last.status = 200
                  /\ last.result = <<products[CHOOSE i \in named : TRUE]>>
           /\ (\A i \in 1..Len(products) :
                  \A v \in SearchedFields(products[i]) : ~ContainsCI(v, last.id)) =>
                  /\ last.status = 200
                  /\ last.result = <<>>

\* createdAt in milliseconds, whichever way the variant stores it
CreatedMs(p) ==
    IF p.createdAt.t = "date" THEN p.createdAt.ms
    ELSE CHOOSE ms \in 0..MaxClock : IsoString(ms) = p.createdAt.s

\* C15: listing answers all stored records, most recently created first.
C15_ListNewestFirst ==
    last.op = "list" =>
        /\ last.status = 200
        /\ last.result \in Orderings(products)
        /\ \A i \in 1..(Len(last.result) - 1) :
               CreatedMs(last.result[i]) >= CreatedMs(last.result[i + 1])

\* C16: the record a successful create persists has createdAt = updatedAt.
C16_CreatedEqualsUpdated ==
    [][(CreateStep /\ last'.status = 201) =>
         products'[Len(products')].createdAt = products'[Len(products')].updatedAt]_vars

----------------------------------------------------------------------------
(* Claims about the URL derivation (checked under SpecUrl) *)

UrlCalled == urlResult # NoResult

\* C1: woven-fabrics branch.  With mainCategory = "woven fabrics" and a
\* truthy subCategory: if subCategory is one of greige, rfd, solid, printed the
\* query is category, then type=<subCategory>, then fabricType=<nestedCategory>
\* exactly when nestedCategory is truthy, and there is no subCategory
\* parameter; otherwise the query is category then subCategory=<subCategory>
\* with no type and no fabricType parameter, whatever nestedCategory is.
C1_WovenBranch ==
    (UrlCalled /\ urlArg.mainCategory = Str(WovenFabrics)
               /\ Truthy(urlArg.subCategory)) =>
        LET sub == urlArg.subCategory.s
            nested == urlArg.nestedCategory
        IN IF sub \in {Greige, Rfd, Solid, Printed}
           THEN /\ QueryNames(urlResult) =
                     IF Truthy(nested)
                     THEN <<KeyCategory, KeyType, KeyFabricType>>
                     ELSE <<KeyCategory, KeyType>>
                /\ QueryValues(urlResult) =
                     IF Truthy(nested)
                     THEN <<WovenFabrics, sub, nested.s>>
                     ELSE <<WovenFabrics, sub>>
           ELSE /\ QueryNames(urlResult) = <<KeyCategory, KeySubCategory>>
                /\ QueryValues(urlResult) = <<WovenFabrics, sub>>

\* a woven product of an enumerated type with a nested category has been derived
C1_Witness ==
    /\ UrlCalled
    /\ urlArg = [mainCategory |-> Str(WovenFabrics), subCategory |-> Str(Greige),
                 nestedCategory |-> Str(Cotton)]
    /\ QueryNames(urlResult) = <<KeyCategory, KeyType, KeyFabricType>>

\* C2: the result is the root path "/products" exactly when mainCategory and
\* subCategory are both absent or empty; in every other case it is the base
\* path "/products?" followed by the query of the category rules (which starts
\* with category=<mainCategory> when mainCategory is present and is empty
\* when it is not).
C2_RootIffBothAbsent ==
    UrlCalled =>
        LET bothAbsent == ~Truthy(urlArg.mainCategory) /\ ~Truthy(urlArg.subCategory)
        IN /\ (urlResult = RootPath) <=> bothAbsent
           /\ ~bothAbsent =>
                /\ IsPrefix(BaseUrl, urlResult)
                /\ IF Truthy(urlArg.mainCategory)
                   THEN /\ Len(QueryOf(urlResult)) >= 1
                        /\ QueryOf(urlResult)[1] = <<KeyCategory, urlArg.mainCategory.s>>
                   ELSE urlResult = BaseUrl

\* the root path was returned for an empty mainCategory and an absent subCategory
C2_Witness ==
    /\ UrlCalled
    /\ urlArg.mainCategory = Str(<<>>)
    /\ urlArg.subCategory = Undefined
    /\ urlResult = RootPath

----------------------------------------------------------------------------
(* Claims about concurrent requests (checked under SpecRace) *)

\* the step just taken is the write of an update whose record was deleted
\* after the update had looked it up
RacedWrite ==
    /\ pending.active
    /\ ~pending'.active
    /\ OptionalUpdateValid(pending.body)
    /\ FindIndex(products, Str(pending.id)) = 0

\* C17: an update whose record is deleted between its lookup and its write
\* ends with the updated record or with NotFound, never with a generic
\* failure, and does not bring the deleted record back.
C17_UpdateDeleteRace ==
    [][RacedWrite =>
         /\ last'.status \in {200, 404}
         /\ FindIndex(products', Str(pending.id)) = 0]_vars

====
